---- MODULE Spec2Model ----
(***************************************************************************)
(* Agent pipelines of simuleval/agents/pipeline.py: the linear             *)
(* AgentPipeline and the TreeAgentPipeline, their construction-time type   *)
(* checks and their push / pop traversal over per-session state bundles.   *)
(***************************************************************************)
EXTENDS Integers, Sequences, FiniteSets, TLC

\* ------------------------------------------------------------------ bounds
\* Largest number of agents of a pipeline (list entries / dict keys).
MaxNodes == 3
\* Declared child entries of a tree topology, over all its children lists.
MaxEdges == 3
\* push / pop calls made on a pipeline, over all its sessions.
MaxCalls == 2

Node == 1..MaxNodes
\* Agent classes.  Node i is the one instance of class i; class 0 is a base
\* class without an instance of its own.
Klass == 0..MaxNodes
Types == {"speech", "text"}
\* (source_type, target_type) of an agent class.
TypePairs == {<<"speech", "speech">>, <<"speech", "text">>, <<"text", "text">>}
\* The agents' types: speech-to-speech agents before agent d, text-to-text
\* agents after it, agent d turning speech into text.
TypesAround(d) ==
    [n \in Node |-> IF n < d THEN <<"speech", "speech">>
                    ELSE IF n = d THEN <<"speech", "text">>
                    ELSE <<"text", "text">>]
TypeAssignments == {TypesAround(d) : d \in 1..(MaxNodes + 1)}
Bundle == 1..2

\* Optional[int]: <<>> is None, <<k>> is the integer k.
None == <<>>
Some(k) == <<k>>

\* ----------------------------------------------------------------- helpers
Range(s) == {s[i] : i \in 1..Len(s)}
\* The sequences over S of length at most n.
SeqsUpTo(S, n) == UNION {[1..k -> S] : k \in 0..n}
\* list.remove(x): drops the first occurrence of x.
RECURSIVE Remove(_, _)
Remove(s, x) ==
    IF s = <<>> THEN <<>>
    ELSE IF Head(s) = x THEN Tail(s)
    ELSE <<Head(s)>> \o Remove(Tail(s), x)
\* The lists of at most n distinct elements of S.
DistinctSeqs(S, n) ==
    {q \in SeqsUpTo(S, n) : \A i, j \in 1..Len(q) : q[i] = q[j] => i = j}
\* dict.keys() of a dict with n entries, in insertion order.
Keys(n) == [i \in 1..n |-> i]

VARIABLES
    typ,        \* typ[n] = <<source_type, target_type>> of agent n
    input,      \* the arguments of the constructor call made
    pipe,       \* the pipeline object, or what its construction raised
    mutator,    \* the agent (0: none) whose push changes its input segment in place
    failing,    \* the agent (0: none) whose push / pop / pushpop raise
    heap,       \* heap[id]: the AgentStates object id (its buffered segments)
    bundles,    \* bundles[b]: the state bundle of session b (node -> object id)
    hist,       \* hist[b]: the calls made with bundle b so far
    call        \* the last push / pop call: arguments, agent invocations, result

vars == <<typ, input, pipe, mutator, failing, heap, bundles, hist, call>>

source_type(n) == typ[n][1]
target_type(n) == typ[n][2]

\* ------------------------------------------------------- AgentPipeline
\* check_pipeline_types of the linear pipeline.  P is len(cls.pipeline), the
\* class attribute; module_list is the list given to the constructor.
RECURSIVE LinearCheckFrom(_, _, _)
LinearCheckFrom(P, module_list, i) ==
    IF i > P - 1 THEN "ok"
    ELSE IF i + 1 > Len(module_list) THEN "IndexError"
    ELSE IF source_type(module_list[i + 1]) # target_type(module_list[i])
         THEN "RuntimeError"
    ELSE LinearCheckFrom(P, module_list, i + 1)

LinearCheck(P, module_list) ==
    IF P > 1 THEN LinearCheckFrom(P, module_list, 1) ELSE "ok"

NoTree ==
    [source_module |-> 0, target_modules |-> <<>>,
     module_dict |-> [n \in {} |-> <<>>], output_index |-> None]

\* AgentPipeline.__init__
LinearInit(P, module_list) ==
    [kind |-> "linear", status |-> LinearCheck(P, module_list),
     module_list |-> module_list] @@ NoTree

\* AgentPipeline.from_args: one instance per class of cls.pipeline; the
\* instance of class i is agent i.
LinearFromArgs(pipeline) ==
    IF Len(pipeline) = 0
    THEN [kind |-> "linear", status |-> "AssertionError",
          module_list |-> <<>>] @@ NoTree
    ELSE LinearInit(Len(pipeline), pipeline)

\* ---------------------------------------------------- TreeAgentPipeline
\* isinstance(ins, klass): classes 2 and 3 derive from the base class 0.
IsInstance(ins, klass) == klass = ins \/ (klass = 0 /\ ins \in {2, 3})

\* get_instance_from_class keeping the first matching key only.
InstancesOfFirst(klass, n) ==
    LET ins_list == SelectSeq(Keys(n), LAMBDA ins : IsInstance(ins, klass))
    IN  IF ins_list = <<>> THEN <<>> ELSE <<ins_list[1]>>

\* get_instance_from_class: the list of matching keys; the caller asserts
\* that it holds exactly one.
InstancesOf(klass, n) == SelectSeq(Keys(n), LAMBDA ins : IsInstance(ins, klass))

\* CheckChildren without the comparison of the edge's types.
RECURSIVE CheckChildrenUntyped(_, _, _, _, _)
CheckChildrenUntyped(n, parent, children, k, acc) ==
    IF k > Len(children) THEN acc
    ELSE LET ins_list == InstancesOf(children[k], n) IN
         IF Len(ins_list) # 1 THEN [acc EXCEPT !.status = "AssertionError"]
         ELSE CheckChildrenUntyped(n, parent, children, k + 1,
                  [acc EXCEPT
                      !.root_instance = Remove(@, ins_list[1]),
                      !.output_dict[parent] = Append(@, ins_list[1])])

\* The loop over one entry's declared child classes, from position k on.
\* acc = [status, root_instance, leaf_instances, output_dict].
RECURSIVE CheckChildren(_, _, _, _, _)
CheckChildren(n, parent, children, k, acc) ==
    IF k > Len(children) THEN acc
    ELSE LET ins_list == InstancesOf(children[k], n) IN
         IF Len(ins_list) # 1 THEN [acc EXCEPT !.status = "AssertionError"]
         ELSE LET child == ins_list[1] IN
              IF source_type(child) # target_type(parent)
              THEN [acc EXCEPT !.status = "RuntimeError"]
              ELSE CheckChildren(n, parent, children, k + 1,
                       [acc EXCEPT
                           !.root_instance = Remove(@, child),
                           !.output_dict[parent] = Append(@, child)])

\* The loop over the entries of module_dict, from entry `parent` on.
RECURSIVE CheckEntries(_, _, _)
CheckEntries(decl, parent, acc) ==
    IF parent > Len(decl) \/ acc.status # "ok" THEN acc
    ELSE IF Len(decl[parent]) = 0
         THEN CheckEntries(decl, parent + 1,
                  [acc EXCEPT !.leaf_instances = Append(@, parent)])
    ELSE CheckEntries(decl, parent + 1,
             CheckChildren(Len(decl), parent, decl[parent], 1, acc))

\* check_pipeline_types asserting only that some root is left.
check_pipeline_types_any_root(decl) ==
    LET acc == CheckEntries(decl, 1,
                   [status |-> "ok",
                    root_instance |-> Keys(Len(decl)),
                    leaf_instances |-> <<>>,
                    output_dict |-> [p \in 1..Len(decl) |-> <<>>]])
    IN  IF acc.status # "ok" THEN acc
        ELSE IF Len(acc.root_instance) < 1 \/ Len(acc.leaf_instances) = 0
             THEN [acc EXCEPT !.status = "AssertionError"]
        ELSE acc

\* TreeAgentPipeline.check_pipeline_types.  decl[i] is the list of child
\* classes module_dict gives for its i-th key, agent i.
check_pipeline_types(decl) ==
    LET acc == CheckEntries(decl, 1,
                   [status |-> "ok",
                    root_instance |-> Keys(Len(decl)),
                    leaf_instances |-> <<>>,
                    output_dict |-> [p \in 1..Len(decl) |-> <<>>]])
    IN  IF acc.status # "ok" THEN acc
        ELSE IF Len(acc.root_instance) # 1 \/ Len(acc.leaf_instances) = 0
             THEN [acc EXCEPT !.status = "AssertionError"]
        ELSE acc

\* TreeAgentPipeline.__init__
TreeInit(decl, output_index) ==
    LET chk == check_pipeline_types(decl)
        failed(err) ==
            [kind |-> "tree", status |-> err, module_list |-> Keys(Len(decl))]
                @@ NoTree
    IN  IF chk.status # "ok" THEN failed(chk.status)
        ELSE IF output_index # None
                /\ ~(Len(chk.leaf_instances) > output_index[1])
             THEN failed("AssertionError")
        ELSE [kind |-> "tree", status |-> "ok",
              module_list |-> Keys(Len(decl)),
              source_module |-> chk.root_instance[1],
              target_modules |-> chk.leaf_instances,
              module_dict |-> chk.output_dict,
              output_index |-> output_index]

\* --------------------------------------------------------- construction
NoInput == [via |-> "none", P |-> 0, module_list |-> <<>>, decl |-> <<>>,
            output_index |-> None]
NoPipe == [kind |-> "none", status |-> "new", module_list |-> <<>>] @@ NoTree
NoCall == [op |-> "none", bundle |-> 0, segment |-> <<>>, status |-> "ok",
           trace |-> <<>>,
           result |-> [kind |-> "none", items |-> <<>>, value |-> <<>>]]

\* The declared topologies of n entries with at most e child entries in all.
RECURSIVE DeclsWithin(_, _)
DeclsWithin(n, e) ==
    IF n = 0 THEN {<<>>}
    ELSE UNION {{Append(d, children) : d \in DeclsWithin(n - 1, e - Len(children))}
                : children \in SeqsUpTo(Klass, e)}
Decls(n) == DeclsWithin(n, MaxEdges)
\* args.output_index: None, or an integer; a tree of MaxNodes agents has at
\* most MaxNodes - 1 leaves.
OutputIndexes == {None} \cup {Some(k) : k \in -1..(MaxNodes - 2)}

\* The agent classes are defined with the types `types`; nothing is
\* constructed and no session is open.
InitWith(types) ==
    /\ typ \in types
    /\ input = NoInput
    /\ pipe = NoPipe
    /\ mutator = 0
    /\ failing = 0
    /\ heap = <<>>
    /\ bundles = [b \in Bundle |-> <<>>]
    /\ hist = [b \in Bundle |-> <<>>]
    /\ call = NoCall

InitCons == InitWith(TypeAssignments)

Frame == UNCHANGED <<typ, mutator, failing, heap, bundles, hist, call>>

\* AgentPipeline(module_list) on a class whose `pipeline` attribute holds P
\* classes.
ConstructLinear ==
    /\ pipe.status = "new"
    /\ \E P \in 0..MaxNodes, module_list \in DistinctSeqs(Node, MaxNodes) :
          /\ module_list # <<>>
          /\ input' = [NoInput EXCEPT !.via = "linear", !.P = P,
                                      !.module_list = module_list]
          /\ pipe' = LinearInit(P, module_list)
    /\ Frame

\* cls.from_args(args) of a linear pipeline class.
ConstructLinearFromArgs ==
    /\ pipe.status = "new"
    /\ \E pipeline \in DistinctSeqs(Node, MaxNodes) :
          /\ input' = [NoInput EXCEPT !.via = "linear_from_args",
                                      !.P = Len(pipeline),
                                      !.module_list = pipeline]
          /\ pipe' = LinearFromArgs(pipeline)
    /\ Frame

\* The values of args.output_index tried with a declared topology: the
\* constructor reads it only once check_pipeline_types has passed.
IndexesFor(decl, indexes) ==
    IF check_pipeline_types(decl).status = "ok" THEN indexes ELSE {None}

\* TreeAgentPipeline(module_dict, args) with args.output_index among
\* `indexes`.
ConstructTreeOf(indexes) ==
    /\ pipe.status = "new"
    /\ \E n \in 1..MaxNodes :
          \E decl \in Decls(n) :
              \E oi \in IndexesFor(decl, indexes) :
                  /\ input' = [NoInput EXCEPT !.via = "tree", !.decl = decl,
                                              !.output_index = oi]
                  /\ pipe' = TreeInit(decl, oi)
    /\ Frame

ConstructTree == ConstructTreeOf(OutputIndexes)

\* cls.from_args(args) of a tree pipeline class: the agents are created,
\* agent 2 possibly one that edits the segments it is given in place, and
\* the constructor is called with them.
TreeFromArgs ==
    /\ pipe.status = "new"
    /\ \E n \in 1..MaxNodes :
          \E decl \in Decls(n) :
              \E oi \in IndexesFor(decl, OutputIndexes) :
                  /\ input' = [NoInput EXCEPT !.via = "tree", !.decl = decl,
                                              !.output_index = oi]
                  /\ pipe' = TreeInit(decl, oi)
                  /\ mutator' \in IF pipe'.status = "ok" /\ oi = None
                                  THEN {0, 2} \cap (0..n) ELSE {0}
    /\ UNCHANGED <<typ, failing, heap, bundles, hist, call>>

\* ------------------------------------------------------------- agents
\* The agents are the pipeline's collaborators (GenericAgent): push buffers
\* the transformed segment in the state given, pop hands out the oldest
\* buffered segment or the empty segment, pushpop is push followed by pop.
EmptySegment == <<>>
\* What agent n makes of a segment: the content with n's mark appended.
Transform(n, content) == Append(content, n)
\* What an agent that edits its input in place leaves in the caller's object.
Mutated(content) == Append(content, 0)

\* The record of one agent invocation.  `from` is the position in the trace
\* of the pushpop call whose frame made this call (0: the pipeline's own).
Invocation(n, op, id, content, ref, from, out) ==
    [node |-> n, op |-> op, state |-> id, in |-> content, ref |-> ref,
     from |-> from, out |-> out]

\* A call context cx = [heap, segs, trace, status, ret]: the state objects,
\* the segment objects alive in the call (a reference is a position of
\* segs), the agent invocations so far, "ok" or the exception raised, and
\* the value the last agent call returned.
NewContext(h, content) ==
    [heap |-> h, segs |-> <<content>>, trace |-> <<>>, status |-> "ok",
     ret |-> EmptySegment, retref |-> 0]

\* A call of the failing agent: it raises, its state as it was.
AgentRaises(cx, n, op, id, content, ref, from) ==
    [cx EXCEPT
        !.status = "AgentError",
        !.trace = Append(@, Invocation(n, op, id, content, ref, from,
                                       EmptySegment))]

\* module.push(segment, states[module])
AgentPush(cx, n, id, ref, from) ==
    LET content == cx.segs[ref] IN
    IF n = failing THEN AgentRaises(cx, n, "push", id, content, ref, from)
    ELSE
    [cx EXCEPT
        !.heap[id] = Append(@, Transform(n, content)),
        !.segs[ref] = IF n = mutator THEN Mutated(content) ELSE content,
        !.trace = Append(@, Invocation(n, "push", id, content, ref, from,
                                       EmptySegment))]

\* module.pop(states[module])
AgentPop(cx, n, id, from) ==
    LET buf == cx.heap[id]
        out == IF buf = <<>> THEN EmptySegment ELSE Head(buf)
    IN  IF n = failing
        THEN AgentRaises(cx, n, "pop", id, EmptySegment, 0, from)
        ELSE
        [cx EXCEPT
            !.heap[id] = IF buf = <<>> THEN <<>> ELSE Tail(buf),
            !.ret = out,
            !.trace = Append(@, Invocation(n, "pop", id, EmptySegment, 0,
                                           from, out))]

\* module.pushpop(segment, states[module]): the value returned is a new
\* segment object.
AgentPushPop(cx, n, id, ref, from) ==
    LET content == cx.segs[ref]
        buf == Append(cx.heap[id], Transform(n, content))
        out == Head(buf)
    IN  IF n = failing
        THEN AgentRaises(cx, n, "pushpop", id, content, ref, from)
        ELSE
        [cx EXCEPT
            !.heap[id] = Tail(buf),
            !.segs = Append([@ EXCEPT ![ref] = IF n = mutator
                                               THEN Mutated(content)
                                               ELSE content], out),
            !.ret = out,
            !.retref = Len(cx.segs) + 1,
            !.trace = Append(@, Invocation(n, "pushpop", id, content, ref,
                                           from, out))]

Raise(cx, err) == [cx EXCEPT !.status = err]

\* ------------------------------------------------- AgentPipeline calls
\* The depth of nested push_impl frames at which the interpreter raises
\* RecursionError; no tree of MaxNodes agents without a cycle is that deep.
RecursionLimit == MaxNodes + 2

NoneResult == [kind |-> "none", items |-> <<>>, value |-> EmptySegment]
ListResult(items) == [kind |-> "list", items |-> items, value |-> EmptySegment]
SegmentResult(v) == [kind |-> "segment", items |-> <<>>, value |-> v]

\* AgentPipeline.build_states / TreeAgentPipeline.build_states: one new
\* state object per module, in the order of module_list / of the dict keys.
\* h is the heap before the call; the bundle maps position / node to object.
LinearBuildStatesShort(p, h) ==
    [states |-> [i \in 1..(Len(p.module_list) - 1) |-> Len(h) + i],
     heap |-> h \o [i \in 1..(Len(p.module_list) - 1) |-> <<>>]]

LinearBuildStates(p, h) ==
    [states |-> [i \in 1..Len(p.module_list) |-> Len(h) + i],
     heap |-> h \o [i \in 1..Len(p.module_list) |-> <<>>]]

TreeBuildStatesShared(p, h) ==
    [states |-> [i \in 1..Len(p.module_list) |-> i],
     heap |-> IF h = <<>> THEN [i \in 1..Len(p.module_list) |-> <<>>] ELSE h]

TreeBuildStates(p, h) ==
    [states |-> [i \in 1..Len(p.module_list) |-> Len(h) + i],
     heap |-> h \o [i \in 1..Len(p.module_list) |-> <<>>]]

\* The pushpop loop of AgentPipeline.push over module_list[:-1], from
\* position index on; the segment variable is rebound to each return value.
RECURSIVE LinearThread(_, _, _, _, _)
LinearThread(p, states, cx, ref, index) ==
    IF index > Len(p.module_list) - 1 \/ cx.status # "ok"
    THEN [cx EXCEPT !.retref = ref]
    ELSE LET cx1 == AgentPushPop(cx, p.module_list[index], states[index],
                                 ref, 0)
         IN  LinearThread(p, states, cx1, cx1.retref, index + 1)

\* AgentPipeline.push calling pushpop on every module, the last one too.
LinearPushAllPushpop(p, h, states, content) ==
    LET cx0 == NewContext(h, content)
        noLast == [p EXCEPT !.module_list = Append(@, 0)]
    IN  IF Len(states) # Len(p.module_list) THEN Raise(cx0, "AssertionError")
        ELSE LinearThread(noLast, states, cx0, 1, 1)

\* AgentPipeline.push(segment, states)
LinearPush(p, h, states, content) ==
    LET cx0 == NewContext(h, content)
        M == Len(p.module_list)
    IN  IF Len(states) # M THEN Raise(cx0, "AssertionError")
        ELSE LET cx1 == LinearThread(p, states, cx0, 1, 1)
             IN  IF cx1.status # "ok" THEN cx1
                 ELSE AgentPush(cx1, p.module_list[M], states[M],
                                cx1.retref, 0)

\* AgentPipeline.pop(states)
LinearPop(p, h, states) ==
    LET cx0 == NewContext(h, EmptySegment)
        M == Len(p.module_list)
    IN  IF Len(states) # M THEN Raise(cx0, "AssertionError")
        ELSE AgentPop(cx0, p.module_list[M], states[M], 0)

\* --------------------------------------------- TreeAgentPipeline calls
\* TreeAgentPipeline.push_impl(module, segment, states) at frame depth
\* `depth`, called from the frame of trace entry `from`; ForChildren is its
\* loop over the children from position k on, every one called with the
\* frame's own segment variable.
RECURSIVE PushImpl(_, _, _, _, _, _, _)
RECURSIVE ForChildren(_, _, _, _, _, _, _, _)
RECURSIVE ForChildrenReversed(_, _, _, _, _, _, _, _)
RECURSIVE ForChildrenSuppressing(_, _, _, _, _, _, _, _)

\* ForChildren going through the children from the last to the first.
ForChildrenReversed(p, states, cx, children, k, ref, from, depth) ==
    IF k > Len(children) \/ cx.status # "ok" THEN cx
    ELSE ForChildrenReversed(p, states,
             PushImpl(p, states, cx, children[Len(children) - k + 1], ref,
                      from, depth + 1),
             children, k + 1, ref, from, depth)

\* ForChildren catching what a child's call raised and going on with the
\* next child.
ForChildrenSuppressing(p, states, cx, children, k, ref, from, depth) ==
    IF k > Len(children) THEN cx
    ELSE ForChildrenSuppressing(p, states,
             [PushImpl(p, states, cx, children[k], ref, from, depth + 1)
                 EXCEPT !.status = IF @ = "AgentError" THEN "ok" ELSE @],
             children, k + 1, ref, from, depth)

ForChildren(p, states, cx, children, k, ref, from, depth) ==
    IF k > Len(children) \/ cx.status # "ok" THEN cx
    ELSE ForChildren(p, states,
             PushImpl(p, states, cx, children[k], ref, from, depth + 1),
             children, k + 1, ref, from, depth)

PushImpl(p, states, cx, module, ref, from, depth) ==
    IF depth > RecursionLimit THEN Raise(cx, "RecursionError")
    ELSE LET children == p.module_dict[module] IN
         IF Len(children) = 0
         THEN AgentPush(cx, module, states[module], ref, from)
         ELSE LET cx1 == AgentPushPop(cx, module, states[module], ref, from)
              IN  ForChildren(p, states, cx1, children, 1, cx1.retref,
                              Len(cx1.trace), depth)

\* TreeAgentPipeline.push(segment, states)
TreePush(p, h, states, content) ==
    LET cx0 == NewContext(h, content) IN
    IF Len(states) # Len(p.module_list) THEN Raise(cx0, "AssertionError")
    ELSE PushImpl(p, states, cx0, p.source_module, 1, 0, 1)

\* PopLeaves putting each result in front of the earlier ones.
RECURSIVE PopLeavesPrepend(_, _, _, _)
PopLeavesPrepend(p, states, k, acc) ==
    IF k > Len(p.target_modules) \/ acc.cx.status # "ok" THEN acc
    ELSE LET module == p.target_modules[k]
             cx1 == AgentPop(acc.cx, module, states[module], 0)
         IN  PopLeavesPrepend(p, states, k + 1,
                 [cx |-> cx1, outputs |-> <<cx1.ret>> \o acc.outputs])

\* The loop of TreeAgentPipeline.pop over target_modules, from position k
\* on; acc = [cx, outputs].
RECURSIVE PopLeaves(_, _, _, _)
PopLeaves(p, states, k, acc) ==
    IF k > Len(p.target_modules) \/ acc.cx.status # "ok" THEN acc
    ELSE IF Len(states) # Len(p.module_list)
         THEN [acc EXCEPT !.cx = Raise(@, "AssertionError")]
    ELSE LET module == p.target_modules[k]
             cx1 == AgentPop(acc.cx, module, states[module], 0)
         IN  PopLeaves(p, states, k + 1,
                 [cx |-> cx1, outputs |-> Append(acc.outputs, cx1.ret)])

\* ListIndex taking the first output whatever the index.
ListIndexFirst(outputs, index) ==
    IF outputs = <<>> THEN <<>> ELSE <<outputs[1]>>

\* outputs[index] of a Python list: a negative index counts from the end.
ListIndex(outputs, index) ==
    IF index >= 0 /\ index < Len(outputs) THEN <<outputs[index + 1]>>
    ELSE IF index < 0 /\ -index <= Len(outputs)
         THEN <<outputs[Len(outputs) + index + 1]>>
    ELSE <<>>

\* TreeAgentPipeline.pop calling, when output_index is set, the pop of the
\* leaf it selects only.
TreePopIndexedOnly(p, h, states) ==
    LET cx0 == NewContext(h, EmptySegment) IN
    IF p.output_index = None
    THEN LET acc == PopLeaves(p, states, 1, [cx |-> cx0, outputs |-> <<>>])
         IN  [cx |-> acc.cx, result |-> ListResult(acc.outputs)]
    ELSE LET module == ListIndex(p.target_modules, p.output_index[1])[1]
             cx1 == AgentPop(cx0, module, states[module], 0)
         IN  [cx |-> cx1, result |-> SegmentResult(cx1.ret)]

\* TreeAgentPipeline.pop(states): [context, result].
TreePop(p, h, states) ==
    LET acc == PopLeaves(p, states, 1,
                   [cx |-> NewContext(h, EmptySegment), outputs |-> <<>>])
    IN  IF acc.cx.status # "ok" THEN [cx |-> acc.cx, result |-> NoneResult]
        ELSE IF p.output_index # None
             THEN LET got == ListIndex(acc.outputs, p.output_index[1]) IN
                  IF got = <<>>
                  THEN [cx |-> Raise(acc.cx, "IndexError"),
                        result |-> NoneResult]
                  ELSE [cx |-> acc.cx, result |-> SegmentResult(got[1])]
        ELSE [cx |-> acc.cx, result |-> ListResult(acc.outputs)]

\* ------------------------------------------------------ type properties
\* AgentPipeline.source_type / target_type
LinearSourceType(p) == source_type(p.module_list[1])

\* AgentPipeline.target_type taking the first module's tag.
LinearTargetTypeFirst(p) == target_type(p.module_list[1])

LinearTargetType(p) == target_type(p.module_list[Len(p.module_list)])

\* TreeAgentPipeline.source_type
TreeSourceType(p) == source_type(p.source_module)

\* "_".join(tags)
RECURSIVE Join(_)
Join(tags) ==
    IF tags = <<>> THEN ""
    ELSE IF Len(tags) = 1 THEN tags[1]
    ELSE tags[1] \o "_" \o Join(Tail(tags))

\* TreeAgentPipeline.target_type without the output_index branch.
TreeTargetTypeJoined(p) ==
    [status |-> "ok",
     value |-> Join([i \in 1..Len(p.target_modules) |->
                        target_type(p.target_modules[i])])]

\* TreeAgentPipeline.target_type: [status, value].
TreeTargetType(p) ==
    IF p.output_index # None
    THEN LET got == ListIndex(p.target_modules, p.output_index[1]) IN
         IF got = <<>> THEN [status |-> "IndexError", value |-> ""]
         ELSE [status |-> "ok", value |-> target_type(got[1])]
    ELSE [status |-> "ok",
          value |-> Join([i \in 1..Len(p.target_modules) |->
                             target_type(p.target_modules[i])])]

\* pipeline.source_type and pipeline.target_type as the pipeline's class
\* resolves them.
PipelineSourceType(p) ==
    IF p.kind = "linear" THEN LinearSourceType(p) ELSE TreeSourceType(p)

PipelineTargetType(p) ==
    IF p.kind = "linear" THEN [status |-> "ok", value |-> LinearTargetType(p)]
    ELSE TreeTargetType(p)

\* The caller reads pipeline.source_type and pipeline.target_type.
ReadTypes ==
    /\ pipe.status = "ok"
    /\ call.op = "none"
    /\ LET target == PipelineTargetType(pipe)
       IN  call' = [NoCall EXCEPT
                       !.op = "types",
                       !.status = target.status,
                       !.result = [kind |-> "types",
                                   items |-> <<PipelineSourceType(pipe),
                                               target.value>>,
                                   value |-> EmptySegment]]
    /\ UNCHANGED <<typ, input, pipe, mutator, failing, heap, bundles, hist>>

NextCons ==
    \/ ConstructLinear
    \/ ConstructLinearFromArgs
    \/ ConstructTree
    \/ ReadTypes

SpecCons == InitCons /\ [][NextCons]_vars

\* ------------------------------------------------------------ sessions
\* The content of the segments session b pushes.
Payload(b) == <<b>>
SameTypes == TypesAround(MaxNodes + 1)

\* The agents' types all alike; nothing constructed, no session open.
Init == InitWith({SameTypes})

HistEntry(op, content, status, result) ==
    [op |-> op, segment |-> content, status |-> status, result |-> result]

\* pipeline.build_states(), pipeline.push(segment, states) and
\* pipeline.pop(states) as the pipeline's class resolves them; push and pop
\* give [cx, result]: the call's context and the value returned.
PipelineBuildStates(p, h) ==
    IF p.kind = "linear" THEN LinearBuildStates(p, h)
    ELSE TreeBuildStates(p, h)

PipelinePush(p, h, states, content) ==
    LET cx == IF p.kind = "linear" THEN LinearPush(p, h, states, content)
              ELSE TreePush(p, h, states, content)
    IN  [cx |-> cx,
         result |-> IF cx.status # "ok" \/ p.kind = "linear"
                    THEN NoneResult ELSE ListResult(<<>>)]

PipelinePop(p, h, states) ==
    IF p.kind = "linear"
    THEN LET cx == LinearPop(p, h, states)
         IN  [cx |-> cx,
              result |-> IF cx.status = "ok" THEN SegmentResult(cx.ret)
                         ELSE NoneResult]
    ELSE TreePop(p, h, states)

\* states = pipeline.build_states() of session b; sessions are numbered in
\* the order of their build_states calls.
BuildStates(b) ==
    /\ pipe.status = "ok"
    /\ bundles[b] = <<>>
    /\ b = 1 \/ bundles[1] # <<>>
    /\ LET built == PipelineBuildStates(pipe, heap)
       IN  /\ heap' = built.heap
           /\ bundles' = [bundles EXCEPT ![b] = built.states]
    /\ UNCHANGED <<typ, input, pipe, mutator, failing, hist, call>>

\* What a call leaves behind: the state objects, the record of the call and
\* the session's history.
Called(b, op, content, r) ==
    /\ heap' = r.cx.heap
    /\ call' = [op |-> op, bundle |-> b, segment |-> content,
                status |-> r.cx.status, trace |-> r.cx.trace,
                result |-> r.result]
    /\ hist' = [hist EXCEPT ![b] =
                   Append(@, HistEntry(op, content, r.cx.status, r.result))]
    /\ UNCHANGED <<typ, input, pipe, mutator, failing, bundles>>

\* pipeline.push(segment, states) of session b
Push(b) ==
    /\ pipe.status = "ok"
    /\ bundles[b] # <<>>
    /\ Len(hist[1]) + Len(hist[2]) < MaxCalls
    /\ Called(b, "push", Payload(b),
              PipelinePush(pipe, heap, bundles[b], Payload(b)))

\* pipeline.pop(states) of session b
Pop(b) ==
    /\ pipe.status = "ok"
    /\ bundles[b] # <<>>
    /\ Len(hist[1]) + Len(hist[2]) < MaxCalls
    /\ Called(b, "pop", EmptySegment, PipelinePop(pipe, heap, bundles[b]))

\* One session on a pipeline built by from_args.
Next ==
    \/ ConstructLinearFromArgs
    \/ TreeFromArgs
    \/ BuildStates(1)
    \/ Push(1)
    \/ Pop(1)

Spec == Init /\ [][Next]_vars

\* Two sessions on one pipeline, their calls interleaved in every way.
NextIso ==
    \/ ConstructLinearFromArgs
    \/ ConstructTreeOf({None})
    \/ \E b \in Bundle : BuildStates(b)
    \/ \E b \in Bundle : Push(b)
    \/ \E b \in Bundle : Pop(b)

SpecIso == Init /\ [][NextIso]_vars

\* cls.from_args(args) of a linear pipeline class one of whose agents is
\* one whose calls raise.
LinearFromArgsFailing ==
    /\ pipe.status = "new"
    /\ \E pipeline \in DistinctSeqs(Node, MaxNodes) :
          /\ input' = [NoInput EXCEPT !.via = "linear_from_args",
                                      !.P = Len(pipeline),
                                      !.module_list = pipeline]
          /\ pipe' = LinearFromArgs(pipeline)
          /\ failing' \in IF pipe'.status = "ok" THEN Range(pipeline) ELSE {0}
    /\ UNCHANGED <<typ, mutator, heap, bundles, hist, call>>

\* cls.from_args(args) of a tree pipeline class, args.output_index unset,
\* one of whose agents is one whose calls raise.
TreeFromArgsFailing ==
    /\ pipe.status = "new"
    /\ \E n \in 1..MaxNodes :
          \E decl \in Decls(n) :
              /\ input' = [NoInput EXCEPT !.via = "tree", !.decl = decl]
              /\ pipe' = TreeInit(decl, None)
              /\ failing' \in IF pipe'.status = "ok" THEN 1..n ELSE {0}
    /\ UNCHANGED <<typ, mutator, heap, bundles, hist, call>>

\* One session on a pipeline with an agent whose calls raise.
NextFail ==
    \/ LinearFromArgsFailing
    \/ TreeFromArgsFailing
    \/ BuildStates(1)
    \/ Push(1)
    \/ Pop(1)

SpecFail == Init /\ [][NextFail]_vars

\* ================================================== construction claims
IsLinearInput == input.via \in {"linear", "linear_from_args"}
IsTreeInput == input.via = "tree"
Constructed == pipe.status = "ok"

\* The children-adjacency mapping md as a graph.
ChildSet(md, n) == Range(md[n])
RECURSIVE Grow(_, _)
Grow(md, S) ==
    LET T == S \cup UNION {ChildSet(md, x) : x \in S}
    IN  IF T = S THEN S ELSE Grow(md, T)
\* The nodes reached from n by one or more child edges.
Descendants(md, n) == Grow(md, ChildSet(md, n))
Cyclic(md) == \E n \in DOMAIN md : n \in Descendants(md, n)
Parents(md, c) == {p \in DOMAIN md : c \in ChildSet(md, p)}

\* The nodes a declared topology lists as a child: those of a declared class.
Listed(decl) ==
    {c \in 1..Len(decl) :
        \E p \in 1..Len(decl) : \E k \in 1..Len(decl[p]) :
            IsInstance(c, decl[p][k])}

\* C1: a linear pipeline built from a module list with an adjacent pair
\* whose types differ (agent[i].source_type # agent[i-1].target_type) is
\* never constructed, directly or through from_args.
C1_LinearMismatchFails ==
    (IsLinearInput
       /\ \E i \in 2..Len(input.module_list) :
             source_type(input.module_list[i])
                 # target_type(input.module_list[i - 1]))
    => ~Constructed

\* C2: no constructed tree pipeline has a cycle in its children-adjacency
\* mapping.
C2_NoCycleConstructed ==
    (pipe.kind = "tree" /\ Constructed) => ~Cyclic(pipe.module_dict)

\* C3: in every constructed tree pipeline each node that is somebody's child
\* is in the children list of exactly one parent.
C3_SingleParent ==
    (pipe.kind = "tree" /\ Constructed)
    => \A c \in DOMAIN pipe.module_dict :
          Cardinality(Parents(pipe.module_dict, c)) <= 1

\* C4: tree construction fails when two or more nodes are never listed as a
\* child, and when every node has a non-empty children list; a constructed
\* tree pipeline has exactly one node that nobody lists as a child, it is the
\* root, and its leaf list is non-empty and holds exactly the nodes whose
\* children list is empty.
C4_OneRootSomeLeaf ==
    IsTreeInput =>
        LET decl == input.decl
            n == Len(decl)
            md == pipe.module_dict
        IN  /\ Cardinality((1..n) \ Listed(decl)) >= 2 => ~Constructed
            /\ (\A p \in 1..n : decl[p] # <<>>) => ~Constructed
            /\ Constructed =>
                  /\ {r \in 1..n : Parents(md, r) = {}} = {pipe.source_module}
                  /\ pipe.target_modules # <<>>
                  /\ Range(pipe.target_modules) = {l \in 1..n : md[l] = <<>>}
                  /\ Cardinality(Range(pipe.target_modules))
                         = Len(pipe.target_modules)

\* A topology with two roots and a leaf, and nothing else wrong, was refused.
C4_Witness ==
    /\ IsTreeInput
    /\ Len(input.decl) = MaxNodes
    /\ Cardinality((1..Len(input.decl)) \ Listed(input.decl)) = 2
    /\ \E p \in 1..Len(input.decl) : input.decl[p] = <<>>
    /\ pipe.status = "AssertionError"
    /\ \A p \in 1..Len(input.decl) : \A k \in 1..Len(input.decl[p]) :
          /\ Len(InstancesOf(input.decl[p][k], Len(input.decl))) = 1
          /\ source_type(InstancesOf(input.decl[p][k], Len(input.decl))[1])
                 = target_type(p)

\* C5: every edge parent -> child of a constructed tree pipeline has
\* child.source_type = parent.target_type, and a topology declaring an edge
\* whose types differ is not constructed.
C5_EdgesTyped ==
    IsTreeInput =>
        LET decl == input.decl
            n == Len(decl)
        IN  /\ Constructed =>
                  \A p \in 1..n : \A c \in ChildSet(pipe.module_dict, p) :
                      source_type(c) = target_type(p)
            /\ (\E p \in 1..n : \E k \in 1..Len(decl[p]) : \E c \in 1..n :
                    /\ IsInstance(c, decl[p][k])
                    /\ source_type(c) # target_type(p))
               => ~Constructed

\* A constructed tree with two edges between agents of both types.
C5_Witness ==
    /\ pipe.kind = "tree" /\ Constructed
    /\ \E p \in DOMAIN pipe.module_dict :
          /\ Len(pipe.module_dict[p]) = 2
          /\ target_type(p) # source_type(p)

\* ===================================================== streaming claims
Leaves == pipe.target_modules

\* C6: on a tree pipeline with L leaves and no output_index, pop returns a
\* list of exactly L results, the i-th being what the pop of the i-th leaf
\* of the leaf list returned on that leaf's state of the bundle.
C6_PopListsLeaves ==
    (pipe.kind = "tree" /\ pipe.output_index = None /\ call.op = "pop")
    => /\ call.status = "ok"
       /\ call.result.kind = "list"
       /\ Len(call.result.items) = Len(Leaves)
       /\ Len(call.trace) = Len(Leaves)
       /\ \A i \in 1..Len(Leaves) :
             /\ call.trace[i].op = "pop"
             /\ call.trace[i].node = Leaves[i]
             /\ call.trace[i].state = bundles[call.bundle][Leaves[i]]
             /\ call.result.items[i] = call.trace[i].out

\* A pop of two leaves that returned two different segments.
C6_Witness ==
    /\ pipe.kind = "tree" /\ pipe.output_index = None /\ call.op = "pop"
    /\ Len(Leaves) = 2
    /\ call.result.items[1] # EmptySegment
    /\ call.result.items[2] # EmptySegment
    /\ call.result.items[1] # call.result.items[2]

\* C7: on a tree pipeline built with output_index = k, 0 <= k < number of
\* leaves, pop returns the one value that the pop of leaf k returned on
\* that leaf's state of the bundle.
C7_PopSelectsLeaf ==
    (pipe.kind = "tree" /\ pipe.output_index # None /\ call.op = "pop")
    => LET k == pipe.output_index[1] IN
       (0 <= k /\ k < Len(Leaves))
       => /\ call.status = "ok"
          /\ call.result.kind = "segment"
          /\ \E i \in 1..Len(call.trace) :
                /\ call.trace[i].op = "pop"
                /\ call.trace[i].node = Leaves[k + 1]
                /\ call.trace[i].state = bundles[call.bundle][Leaves[k + 1]]
                /\ call.result.value = call.trace[i].out
                /\ \A j \in 1..Len(call.trace) :
                      call.trace[j].node = Leaves[k + 1] => j = i

\* A pop with output_index = 1 that returned the second leaf's segment.
C7_Witness ==
    /\ pipe.kind = "tree" /\ pipe.output_index = Some(1) /\ call.op = "pop"
    /\ call.result.kind = "segment"
    /\ call.result.value # EmptySegment
    /\ call.trace[1].out # call.result.value

\* The calls of one session made alone: a bundle built on an empty heap and
\* the calls `calls` made with it, one after the other, from call k on.
RECURSIVE Replay(_, _, _, _)
Replay(p, calls, k, st) ==
    IF k > Len(calls) THEN st
    ELSE LET e == calls[k]
             r == IF e.op = "push"
                  THEN PipelinePush(p, st.heap, st.states, e.segment)
                  ELSE PipelinePop(p, st.heap, st.states)
         IN  Replay(p, calls, k + 1,
                 [heap |-> r.cx.heap, states |-> st.states,
                  out |-> Append(st.out,
                              HistEntry(e.op, e.segment, r.cx.status,
                                        r.result))])

Alone(b) ==
    LET built == PipelineBuildStates(pipe, <<>>)
    IN  Replay(pipe, hist[b], 1,
            [heap |-> built.heap, states |-> built.states, out |-> <<>>])

\* C8: with two bundles from two build_states calls, whatever the
\* interleaving of the calls made with them, each bundle's results and
\* per-node states are those of its own calls made alone, and the two
\* bundles hold no state object in common.
C8_SessionIsolation ==
    /\ \A b \in Bundle :
          bundles[b] # <<>> =>
              LET a == Alone(b) IN
              /\ hist[b] = a.out
              /\ \A i \in 1..Len(bundles[b]) :
                    heap[bundles[b][i]] = a.heap[a.states[i]]
    /\ Range(bundles[1]) \cap Range(bundles[2]) = {}

\* Two sessions of a tree pipeline, each having pushed its own payload.
C8_Witness ==
    /\ pipe.kind = "tree" /\ Constructed
    /\ Len(pipe.module_dict[pipe.source_module]) = 2
    /\ Len(hist[1]) = 1 /\ Len(hist[2]) = 1
    /\ hist[1][1].op = "push" /\ hist[2][1].op = "push"
    /\ hist[1][1].segment # hist[2][1].segment
    /\ \E n \in 1..Len(pipe.module_list) :
          /\ heap[bundles[1][n]] # <<>>
          /\ heap[bundles[2][n]] # <<>>
          /\ heap[bundles[1][n]] # heap[bundles[2][n]]

\* C9: in a tree push every child called from a pushpop call receives the
\* value that pushpop call returned, whatever the siblings called before it
\* did with it.
C9_FanOutSameValue ==
    (pipe.kind = "tree" /\ call.op = "push")
    => \A i \in 1..Len(call.trace) :
          call.trace[i].from > 0
          => call.trace[i].in = call.trace[call.trace[i].from].out

\* C10: a linear push calls pushpop on agents 1..N-1 in order, each with the
\* value the one before returned (the first with the caller's segment) and
\* its own state, then push once on agent N, and returns nothing; a linear
\* pop calls the pop of agent N alone and returns its result.
C10_LinearProtocol ==
    (pipe.kind = "linear" /\ call.op # "none")
    => LET N == Len(pipe.module_list)
           states == bundles[call.bundle]
           t == call.trace
           given(i) == IF i = 1 THEN call.segment ELSE t[i - 1].out
       IN  /\ call.status = "ok"
           /\ call.op = "push" =>
                 /\ Len(t) = N
                 /\ \A i \in 1..N :
                       /\ t[i].op = IF i < N THEN "pushpop" ELSE "push"
                       /\ t[i].node = pipe.module_list[i]
                       /\ t[i].state = states[i]
                       /\ t[i].in = given(i)
                 /\ call.result = NoneResult
           /\ call.op = "pop" =>
                 /\ Len(t) = 1
                 /\ t[1].op = "pop"
                 /\ t[1].node = pipe.module_list[N]
                 /\ t[1].state = states[N]
                 /\ call.result = SegmentResult(t[1].out)

\* A push through a linear pipeline of MaxNodes agents.
C10_Witness ==
    /\ pipe.kind = "linear" /\ Len(pipe.module_list) = MaxNodes
    /\ call.op = "push" /\ call.status = "ok"
    /\ Len(call.trace) = MaxNodes

\* ====================================================== type claims
\* The tags joined with "_", from the first to the k-th.
RECURSIVE JoinedUpTo(_, _)
JoinedUpTo(tags, k) ==
    IF k = 1 THEN tags[1] ELSE JoinedUpTo(tags, k - 1) \o "_" \o tags[k]

\* The one node of a declared topology that no entry lists as a child.
DeclaredRoot(decl) == CHOOSE r \in 1..Len(decl) : r \notin Listed(decl)

\* C11: the source_type read from a constructed linear pipeline is that of
\* the first agent of the list it was built from and its target_type that of
\* the last one; the source_type read from a constructed tree pipeline is
\* that of the root.
C11_PipelineTypes ==
    call.op = "types"
    => /\ call.status = "ok"
       /\ IsLinearInput =>
             /\ call.result.items[1] = source_type(input.module_list[1])
             /\ call.result.items[2]
                    = target_type(input.module_list[Len(input.module_list)])
       /\ IsTreeInput =>
             call.result.items[1] = source_type(DeclaredRoot(input.decl))

\* The types of a linear pipeline of MaxNodes agents that turns speech into
\* text were read.
C11_Witness ==
    /\ call.op = "types" /\ IsLinearInput
    /\ Len(input.module_list) = MaxNodes
    /\ call.result.items = <<"speech", "text">>

\* C12: the target_type read from a constructed tree pipeline is, without
\* output_index, the target_type tags of the leaves joined with "_" in
\* leaf-list order, and with output_index = k the target_type of leaf k (a
\* negative k counting from the end of the leaf list).
C12_TreeTargetType ==
    (call.op = "types" /\ IsTreeInput)
    => LET tags == [i \in 1..Len(Leaves) |-> target_type(Leaves[i])]
           k == pipe.output_index
       IN  /\ call.status = "ok"
           /\ call.result.items[2]
                  = IF k = None THEN JoinedUpTo(tags, Len(tags))
                    ELSE IF k[1] >= 0 THEN tags[k[1] + 1]
                    ELSE tags[Len(tags) + k[1] + 1]

\* The target_type of a tree with a speech leaf and a text leaf was read,
\* without output_index.
C12_Witness ==
    /\ call.op = "types" /\ IsTreeInput
    /\ pipe.output_index = None
    /\ call.result.items[2] = "speech_text"

\* ============================================ more construction claims
\* The nodes of a topology of n entries that are instances of klass.
Matching(klass, n) == {c \in 1..n : IsInstance(c, klass)}

\* C18: a topology declaring a child class that no node or more than one
\* node is an instance of (a node of a subclass being an instance) is not
\* constructed; in a constructed tree every declared child entry is recorded,
\* in its place, as an edge to the one node that is an instance of the class.
C18_UniqueInstance ==
    IsTreeInput =>
        LET decl == input.decl
            n == Len(decl)
        IN  /\ (\E p \in 1..n : \E k \in 1..Len(decl[p]) :
                    Cardinality(Matching(decl[p][k], n)) # 1)
               => ~Constructed
            /\ Constructed =>
                  \A p \in 1..n :
                      /\ Len(pipe.module_dict[p]) = Len(decl[p])
                      /\ \A k \in 1..Len(decl[p]) :
                            Matching(decl[p][k], n) = {pipe.module_dict[p][k]}

\* A constructed tree one of whose edges was declared with the base class
\* and recorded to the one node of a derived class.
C18_Witness ==
    /\ IsTreeInput /\ Constructed
    /\ \E p \in 1..Len(input.decl) : \E k \in 1..Len(input.decl[p]) :
          /\ input.decl[p][k] = 0
          /\ pipe.module_dict[p][k] # 0
          /\ Len(input.decl[p]) = 2

\* C20: every constructed tree pipeline with an output_index has
\* 0 <= output_index < number of leaves.
C20_IndexInRange ==
    (pipe.kind = "tree" /\ Constructed /\ pipe.output_index # None)
    => /\ 0 <= pipe.output_index[1]
       /\ pipe.output_index[1] < Len(Leaves)

\* ================================================== traversal claims
\* The positions of the trace t where node n was invoked.
CallsOf(t, n) == {i \in 1..Len(t) : t[i].node = n}

\* C13: a push on a constructed tree pipeline invokes every node of the
\* topology exactly once, pushpop on a node with children and push on a leaf.
C13_EveryNodeOnce ==
    (pipe.kind = "tree" /\ call.op = "push")
    => \A n \in DOMAIN pipe.module_dict :
          /\ Cardinality(CallsOf(call.trace, n)) = 1
          /\ \A i \in CallsOf(call.trace, n) :
                call.trace[i].op = IF pipe.module_dict[n] = <<>>
                                   THEN "push" ELSE "pushpop"

\* C14: no push on a constructed tree pipeline recurses until the
\* interpreter's recursion limit stops it.
C14_PushTerminates ==
    (pipe.kind = "tree" /\ call.op = "push")
    => call.status # "RecursionError"

\* The positions of the trace t of the calls made from the frame of call f,
\* in the order they were made.
CalledFrom(t, f) ==
    SelectSeq([i \in 1..Len(t) |-> i], LAMBDA i : t[i].from = f)

\* Call j of the trace t is call i or was made below it.
RECURSIVE Under(_, _, _)
Under(t, i, j) ==
    j = i \/ (t[j].from > 0 /\ Under(t, i, t[j].from))

\* C15: the trace of a tree push starts with the root; every other call is
\* made from a pushpop call recorded before it; the calls made from one
\* pushpop call are those of the node's children in the order of its
\* children list, all of them when the push returns, a leaf being pushed
\* and a node with children pushpopped; and everything called between the
\* calls of child i and child i+1 belongs to the subtree of child i.
C15_DepthFirstOrder ==
    (pipe.kind = "tree" /\ call.op = "push")
    => LET t == call.trace
           md == pipe.module_dict
       IN  /\ t # <<>>
           /\ t[1].node = pipe.source_module
           /\ \A i \in 1..Len(t) :
                 /\ t[i].from = 0 <=> i = 1
                 /\ t[i].from < i
                 /\ t[i].op = IF md[t[i].node] = <<>> THEN "push" ELSE "pushpop"
                 /\ LET made == CalledFrom(t, i)
                        children == md[t[i].node]
                    IN  /\ Len(made) <= Len(children)
                        /\ call.status = "ok" => Len(made) = Len(children)
                        /\ \A k \in 1..Len(made) :
                              /\ t[made[k]].node = children[k]
                              /\ made[k] > i
                        /\ \A k \in 1..(Len(made) - 1) :
                              \A j \in made[k]..(made[k + 1] - 1) :
                                  Under(t, made[k], j)

\* A push in which the root's first child called a child of its own before
\* the root's second child was called.
C15_Witness ==
    /\ pipe.kind = "tree" /\ call.op = "push" /\ call.status = "ok"
    /\ \E i, j, k \in 1..Len(call.trace) :
          /\ i < j /\ j < k
          /\ call.trace[i].from = 1
          /\ call.trace[j].from = i
          /\ call.trace[k].from = 1
          /\ call.trace[i].node # call.trace[k].node

\* C16: a pop on a tree pipeline calls pop once on every leaf, in leaf-list
\* order, each with the leaf's own state of the bundle, with or without
\* output_index, calls nothing else, and changes no state object of a node
\* that is not a leaf.
C16_PopFrame ==
    [][(pipe.kind = "tree" /\ hist' # hist /\ call'.op = "pop")
       => LET t == call'.trace
              states == bundles[call'.bundle]
          IN  /\ call'.status = "ok"
              /\ Len(t) = Len(Leaves)
              /\ \A i \in 1..Len(Leaves) :
                    /\ t[i].op = "pop"
                    /\ t[i].node = Leaves[i]
                    /\ t[i].state = states[Leaves[i]]
              /\ DOMAIN heap' = DOMAIN heap
              /\ \A id \in DOMAIN heap :
                    id \notin {states[l] : l \in Range(Leaves)}
                    => heap'[id] = heap[id]]_vars

\* A pop on a tree with two leaves and output_index 0, after a push: the
\* second leaf was popped too.
C16_Witness ==
    /\ pipe.kind = "tree" /\ pipe.output_index = Some(0) /\ call.op = "pop"
    /\ Len(Leaves) = 2
    /\ Len(call.trace) = 2
    /\ call.trace[2].out # EmptySegment
    /\ call.result.value = call.trace[1].out

\* What the agent invocations of the trace t, from the k-th on, make of the
\* state objects h: a push buffers the transformed segment, a pop takes the
\* oldest one out, a pushpop does both, a call that raised does nothing.
RECURSIVE Effects(_, _, _)
Effects(h, t, k) ==
    IF k > Len(t) THEN h
    ELSE LET e == t[k]
             pushed == Append(h[e.state], Transform(e.node, e.in))
         IN  Effects(
                 IF e.node = failing THEN h
                 ELSE IF e.op = "push" THEN [h EXCEPT ![e.state] = pushed]
                 ELSE IF e.op = "pushpop"
                      THEN [h EXCEPT ![e.state] = Tail(pushed)]
                 ELSE [h EXCEPT ![e.state] =
                          IF @ = <<>> THEN <<>> ELSE Tail(@)],
                 t, k + 1)

\* C17: when a call of a push or pop invokes the failing agent, the
\* pipeline call ends with the agent's error and returns nothing, that
\* invocation is the last one of the call, and the state objects are left
\* as the invocations made before it left them.
C17_FailurePropagates ==
    [][(hist' # hist)
       => LET t == call'.trace IN
          /\ (CallsOf(t, failing) # {})
             => /\ call'.status = "AgentError"
                /\ call'.result = NoneResult
                /\ CallsOf(t, failing) = {Len(t)}
          /\ heap' = Effects(heap, t, 1)]_vars

\* A tree push that failed in the second leaf after the first leaf had
\* buffered its segment.
C17_Witness ==
    /\ pipe.kind = "tree" /\ call.op = "push"
    /\ call.status = "AgentError"
    /\ Len(call.trace) = 3
    /\ call.trace[3].node = failing
    /\ call.trace[2].op = "push"
    /\ heap[call.trace[2].state] # <<>>

\* C19: a bundle holds one state object per node of the pipeline, no object
\* twice, none shared with the other bundle, each empty until a call is made
\* with the bundle; no push or pop called with a bundle refuses it, and
\* every agent invoked is given the state the bundle holds for it.
C19_BundleShape ==
    /\ \A b \in Bundle :
          bundles[b] # <<>> =>
              /\ Len(bundles[b]) = Len(pipe.module_list)
              /\ \A i, j \in 1..Len(bundles[b]) :
                    bundles[b][i] = bundles[b][j] => i = j
              /\ Range(bundles[b]) \subseteq DOMAIN heap
              /\ hist[b] = <<>> =>
                    \A i \in 1..Len(bundles[b]) : heap[bundles[b][i]] = <<>>
    /\ Range(bundles[1]) \cap Range(bundles[2]) = {}
    /\ call.op \in {"push", "pop"} =>
          /\ call.status # "AssertionError"
          /\ \A i \in 1..Len(call.trace) :
                LET e == call.trace[i]
                    states == bundles[call.bundle]
                IN  IF pipe.kind = "tree" THEN e.state = states[e.node]
                    ELSE \E pos \in 1..Len(pipe.module_list) :
                            /\ pipe.module_list[pos] = e.node
                            /\ e.state = states[pos]

\* Two bundles of a linear pipeline of MaxNodes agents, a push made with
\* the second one.
C19_Witness ==
    /\ pipe.kind = "linear" /\ Len(pipe.module_list) = MaxNodes
    /\ bundles[1] # <<>> /\ bundles[2] # <<>>
    /\ call.op = "push" /\ call.bundle = 2 /\ call.status = "ok"
    /\ Len(call.trace) = MaxNodes

====
